---------------------------- MODULE Spec2Model ----------------------------
(***************************************************************************)
(* Model of the pi-kiosk display controller (kiosk_control.py): the time    *)
(* window evaluator is_on_hours, the display process supervisor             *)
(* (kill_browser / launch_browser) and the rotation loop main_loop, with    *)
(* the environment the loop runs in (the config file, the wall clock, the   *)
(* display processes and the signals the core process can receive); and of  *)
(* the config endpoints of the web interface (server.py).                   *)
(***************************************************************************)
EXTENDS Integers, Sequences, FiniteSets, TLC

VARIABLES
    file,               \* CONFIG_FILE: [kind: "absent" | "torn" | "json", dict: its content]
    now,                \* wall clock, seconds since midnight
    config,             \* main_loop local: the dict read_config returned last
    is_on,              \* main_loop local: value is_on_hours returned last
    pc,                 \* where the core process is
    last_mode,          \* main_loop local: "None", "ON", "OFF"
    last_config,        \* main_loop local: NoneCfg or the config applied last
    current_url_list,   \* global
    current_tab_index,  \* global
    browser_process,    \* global: 0 is None, else the slot of the Popen handle
    trees,              \* display process trees of the machine, by slot
    sleep_for,          \* seconds of the time.sleep the loop is blocked in
    ev,                 \* what the last step of the core did, in order
    api                 \* server.py: the requests to /api/config in progress

vars == <<file, now, config, is_on, pc, last_mode, last_config, current_url_list,
          current_tab_index, browser_process, trees, sleep_for, ev, api>>

---------------------------------------------------------------------------
(* Bounds of the model. *)

\* process slots of the machine: display trees that can exist at once
MaxProcs == 2

---------------------------------------------------------------------------
(* Time strings and the time window evaluator. *)

Digits == <<"0", "1", "2", "3", "4", "5", "6", "7", "8", "9">>

IsDigit(c) == \E i \in 1..10 : Digits[i] = c

DigitVal(c) == (CHOOSE i \in 1..10 : Digits[i] = c) - 1

\* str(h).zfill(2) + ":" + str(m).zfill(2): how the configuration writes a time
HHMM(h, m) ==
    <<Digits[(h \div 10) + 1], Digits[(h % 10) + 1], ":",
      Digits[(m \div 10) + 1], Digits[(m % 10) + 1]>>

ValueError == -1

\* %M at position p of s: ([0-5]\d|\d); <<value, next position>> or <<ValueError, p>>
ParseMinute(s, p) ==
    IF p + 1 <= Len(s) /\ IsDigit(s[p]) /\ DigitVal(s[p]) <= 5 /\ IsDigit(s[p + 1])
    THEN <<DigitVal(s[p]) * 10 + DigitVal(s[p + 1]), p + 2>>
    ELSE IF p <= Len(s) /\ IsDigit(s[p])
         THEN <<DigitVal(s[p]), p + 1>>
         ELSE <<ValueError, p>>

\* %H at position 1 of s followed by ":": (2[0-3]|[0-1]\d|\d); the alternatives are
\* tried in order and the literal ":" decides which one stands
ParseHour(s) ==
    IF /\ Len(s) >= 3 /\ IsDigit(s[1]) /\ IsDigit(s[2]) /\ s[3] = ":"
       /\ \/ (s[1] = "2" /\ DigitVal(s[2]) <= 3)
          \/ DigitVal(s[1]) <= 1
    THEN <<DigitVal(s[1]) * 10 + DigitVal(s[2]), 4>>
    ELSE IF Len(s) >= 2 /\ IsDigit(s[1]) /\ s[2] = ":"
         THEN <<DigitVal(s[1]), 3>>
         ELSE <<ValueError, 1>>

\* datetime.strptime(s, '%H:%M').time(), in seconds since midnight; ValueError when
\* the format does not match or unconverted data remains
strptime(s) ==
    LET h == ParseHour(s)
        m == ParseMinute(s, h[2])
    IN  IF h[1] = ValueError THEN ValueError
        ELSE IF m[1] = ValueError \/ m[2] # Len(s) + 1 THEN ValueError
        ELSE h[1] * 3600 + m[1] * 60

\* the comparison of is_on_hours on parsed times
InWindow_EndInclusive(start, end, t) ==
    IF start <= end THEN start <= t /\ t <= end
    ELSE t >= start \/ t < end

InWindow(start, end, t) ==
    IF start <= end THEN start <= t /\ t < end
    ELSE t >= start \/ t < end

\* is_on_hours, were a parsing failure to default to on-hours
is_on_hours_ErrorIsOn(start_str, end_str, t) ==
    LET start == strptime(start_str)
        end == strptime(end_str)
    IN  IF start = ValueError \/ end = ValueError THEN TRUE
        ELSE InWindow(start, end, t)

\* is_on_hours(start_str, end_str) with datetime.now().time() = t; any exception
\* of the parsing gives False
is_on_hours(start_str, end_str, t) ==
    LET start == strptime(start_str)
        end == strptime(end_str)
    IN  IF start = ValueError \/ end = ValueError THEN FALSE
        ELSE InWindow(start, end, t)


---------------------------------------------------------------------------
(* The time window evaluator alone: is_on_hours on inputs drawn from a grid. *)

GridHours == {0, 5, 6, 7, 8, 12, 17, 18, 22, 23}

GridMinutes == {0, 59}

GridSeconds == {0, 59}

\* times of day datetime.now().time() is drawn from
TimeGrid == {h * 3600 + m * 60 + s : h \in GridHours, m \in GridMinutes, s \in GridSeconds}

WindowHours == {0, 6, 8, 18, 22}

\* on_hours_start / on_hours_end values: well-formed ones, and ones strptime rejects
\* ("24:00", "08:60", "8am") or accepts unpadded ("8:00")
TimeStrings ==
    {HHMM(h, m) : h \in WindowHours, m \in {0, 59}}
        \cup {<<"2", "4", ":", "0", "0">>, <<"0", "8", ":", "6", "0">>,
              <<"8", "a", "m">>, <<"8", ":", "0", "0">>}

---------------------------------------------------------------------------
(* Configuration records: JSON objects are functions whose domain is the set    *)
(* of keys present.                                                              *)

NoneCfg == [None |-> TRUE]

EmptyDict == [k \in {} |-> 0]

Entry(u, d) == [url |-> u, duration |-> d]

Cfg(on, off, start, end) ==
    [on_urls |-> on, off_hours_url |-> off, on_hours_start |-> start, on_hours_end |-> end]

\* the dict read_config returns when there is no config file
DefaultConfig ==
    Cfg(<<Entry("https://google.com", 15)>>, "https://duckduckgo.com", HHMM(8, 0), HHMM(18, 0))

CfgDay == Cfg(<<Entry("A", 5), Entry("B", 10), Entry("C", 3)>>, "O", HHMM(8, 0), HHMM(18, 0))

\* overnight window; the second entry has no "duration" key
CfgNight == Cfg(<<Entry("B", 10), [url |-> "D"]>>, "O", HHMM(22, 0), HHMM(6, 0))

CfgEmptyOn == Cfg(<<>>, "O", HHMM(8, 0), HHMM(18, 0))

CfgNoOff == Cfg(<<Entry("C", 3)>>, "", HHMM(8, 0), HHMM(18, 0))

\* no "on_hours_start" key
CfgNoStart ==
    [on_urls |-> <<Entry("A", 5)>>, off_hours_url |-> "O", on_hours_end |-> HHMM(18, 0)]

\* an on_urls entry without a "url" key
CfgBadEntry == Cfg(<<Entry("A", 5), [duration |-> 5]>>, "O", HHMM(8, 0), HHMM(18, 0))

\* an unparseable window start
CfgBadTime == Cfg(<<Entry("A", 5)>>, "O", <<"8", "a", "m">>, HHMM(18, 0))

\* one entry that dwells for longer than an hour
CfgLong == Cfg(<<Entry("A", 3601)>>, "O", HHMM(8, 0), HHMM(18, 0))

\* the second entry has an empty url
CfgBlankUrl == Cfg(<<Entry("A", 5), Entry("", 5), Entry("C", 3)>>, "O", HHMM(8, 0), HHMM(18, 0))

NineUrls == <<"A", "B", "C", "D", "E", "F", "G", "H", "I">>

\* more entries than ctrl+1 .. ctrl+8 can address
CfgNine == Cfg([i \in 1..Len(NineUrls) |-> Entry(NineUrls[i], 5)], "O", HHMM(8, 0), HHMM(18, 0))

\* the configs the loop is run on with a quiet environment
SteadyConfigs == {CfgDay, CfgNight, CfgLong, CfgBlankUrl, CfgNine}

\* what the API process can have written to CONFIG_FILE
Configs == {CfgDay, CfgNight, CfgEmptyOn, CfgNoOff, CfgNoStart, CfgBadEntry, CfgBadTime}

\* read_config(): the default dict without a file, {} for a file json.load rejects
read_config(f) ==
    IF f.kind = "absent" THEN DefaultConfig
    ELSE IF f.kind = "torn" THEN EmptyDict
    ELSE f.dict

Absent == [kind |-> "absent", dict |-> EmptyDict]

Torn == [kind |-> "torn", dict |-> EmptyDict]

Json(c) == [kind |-> "json", dict |-> c]

\* no request to /api/config is in progress and no POST has been answered:
\*   get, post    where the handler of the GET, of the POST, is
\*   data         request.json of the POST in progress
\*   get_stale, post_stale
\*                another writer has dumped since this handler opened the file
\*   accepted     the config of the last POST answered with "success"
\*   body         the body of the last answer to a GET
ApiIdle ==
    [get |-> "idle", post |-> "idle", data |-> NoneCfg, get_stale |-> FALSE,
     post_stale |-> FALSE, accepted |-> NoneCfg, body |-> NoneCfg]

\* config.get(key): None (here: the falsy value given) when the key is absent
Get(d, key, default) == IF key \in DOMAIN d THEN d[key] ELSE default

\* not config.get("on_urls") or not config.get("off_hours_url")
ConfigInvalid(c) ==
    \/ Get(c, "on_urls", <<>>) = <<>>
    \/ Get(c, "off_hours_url", "") = ""

---------------------------------------------------------------------------
(* Display processes.  A tree is the process Popen started ("par") and its    *)
(* helper process ("kid").  par: "free" (no such process), "run", "hung"      *)
(* (alive, ignores the terminate signal), "denied" (alive, signals from the   *)
(* core are refused), "exited" (dead, its handle not yet dropped).            *)

Slots == 1..MaxProcs

FreeTree == [par |-> "free", kid |-> "none", urls |-> <<>>]

ParAlive(t) == t.par \in {"run", "hung", "denied"}

TreeAlive(t) == ParAlive(t) \/ t.kid = "run"

LiveTrees(tr) == {s \in Slots : TreeAlive(tr[s])}

\* browser_process.poll() is None
Poll_is_None(bp, tr) == bp # 0 /\ ParAlive(tr[bp])

\* a dead tree no handle refers to is gone from the process table
Reap(tr, bp) ==
    [s \in Slots |-> IF s # bp /\ ~TreeAlive(tr[s]) THEN FreeTree ELSE tr[s]]

Event(op, arg) == [op |-> op, arg |-> arg]

\* which way the first block of kill_browser goes for the tracked tree t: "skip"
\* (no live handle), "terminated" (wait returned), "NoSuchProcess" (a child
\* vanished between children() and terminate(): race), "AccessDenied"
\* (parent.terminate() refused) or "TimeoutExpired" (subprocess.TimeoutExpired
\* out of browser_process.wait(timeout=2))
KillOutcome(bp, tr, race) ==
    IF ~Poll_is_None(bp, tr) THEN "skip"
    ELSE IF tr[bp].kid = "run" /\ race THEN "NoSuchProcess"
    ELSE IF tr[bp].par = "denied" THEN "AccessDenied"
    ELSE IF tr[bp].par = "hung" THEN "TimeoutExpired"
    ELSE "terminated"

\* the tracked tree after the first block of kill_browser
AfterTerminate(t, outcome) ==
    CASE outcome = "terminated" -> [t EXCEPT !.par = "exited", !.kid = "none"]
      [] outcome = "NoSuchProcess" ->
            \* handler of (NoSuchProcess, psutil.TimeoutExpired): browser_process.kill()
            [t EXCEPT !.par = IF t.par = "denied" THEN "denied" ELSE "exited",
                      !.kid = "none"]
      [] outcome = "AccessDenied" -> [t EXCEPT !.kid = "none"]
      [] outcome = "TimeoutExpired" ->
            \* subprocess.TimeoutExpired is not psutil.TimeoutExpired: the generic
            \* handler only logs
            [t EXCEPT !.kid = "none"]
      [] OTHER -> t

\* the signals and exceptions of the first block, in order
TerminateEvents(t, outcome) ==
    CASE outcome = "terminated" ->
            (IF t.kid = "run" THEN <<Event("child.terminate", 0)>> ELSE <<>>)
                \o <<Event("parent.terminate", 0), Event("wait", 2)>>
      [] outcome = "NoSuchProcess" ->
            <<Event("NoSuchProcess", 0), Event("browser_process.kill", 0)>>
      [] outcome = "AccessDenied" ->
            (IF t.kid = "run" THEN <<Event("child.terminate", 0)>> ELSE <<>>)
                \o <<Event("AccessDenied", 0)>>
      [] outcome = "TimeoutExpired" ->
            (IF t.kid = "run" THEN <<Event("child.terminate", 0)>> ELSE <<>>)
                \o <<Event("parent.terminate", 0), Event("wait", 2),
                     Event("TimeoutExpired", 0)>>
      [] OTHER -> <<>>

\* kill_browser without its sweep of the processes named chromium
Sweep_Skipped(tr) == tr

\* the sweep: p.kill() on every process named chromium; AccessDenied is passed over
Sweep(tr) ==
    [s \in Slots |->
        IF tr[s].par \in {"run", "hung"} THEN [tr[s] EXCEPT !.par = "exited", !.kid = "none"]
        ELSE IF tr[s].par = "denied" THEN tr[s]
        ELSE [tr[s] EXCEPT !.kid = "none"]]

\* browser_process after kill_browser, were the assignment skipped on an exception
HandleAfterKill_KeptOnError(bp, outcome) ==
    IF outcome \in {"AccessDenied", "TimeoutExpired"} THEN bp ELSE 0

\* browser_process = None, on every path
HandleAfterKill(bp, outcome) == 0

\* kill_browser(): the new browser_process, the new process table, the events
kill_browser(bp, tr, race) ==
    LET outcome == KillOutcome(bp, tr, race)
        tr1 == IF outcome = "skip" THEN tr
               ELSE [tr EXCEPT ![bp] = AfterTerminate(tr[bp], outcome)]
        bp1 == HandleAfterKill(bp, outcome)
    IN  [bp |-> bp1,
         trees |-> Reap(Sweep(tr1), bp1),
         ev |-> <<Event("kill_browser", 0)>> \o
                (IF outcome = "skip" THEN <<>> ELSE TerminateEvents(tr[bp], outcome))
                \o <<Event("sweep", Cardinality(LiveTrees(tr1)))>>]


\* subprocess.run(['xdotool', 'key', 'ctrl+<tab_index>']); a failure is only logged
focus_tab(tab_index) == <<Event("xdotool key ctrl+", tab_index)>>

FreeSlots(tr) == {s \in Slots : tr[s].par = "free" /\ tr[s].kid = "none"}

\* subprocess.Popen(command): the handle of the new process, or an exception
\* (spawn_ok false, or the machine cannot hold another process) that leaves
\* browser_process as it was
Popen(bp, tr, urls, spawn_ok) ==
    IF spawn_ok /\ FreeSlots(tr) # {}
    THEN LET s == CHOOSE x \in FreeSlots(tr) : \A y \in FreeSlots(tr) : x <= y
         IN  [ok |-> TRUE, bp |-> s,
              trees |-> Reap([tr EXCEPT ![s] = [par |-> "run", kid |-> "none", urls |-> urls]], s)]
    ELSE [ok |-> FALSE, bp |-> bp, trees |-> tr]

\* seconds launch_browser sleeps after Popen
SettleDelay == 10

---------------------------------------------------------------------------
(* What the display processes do on their own. *)

CoreUnchanged ==
    UNCHANGED <<api, file, now, config, is_on, pc, last_mode, last_config,
                current_url_list, current_tab_index, browser_process, sleep_for, ev>>

\* the display process exits or crashes, its helper with it
DisplayExits(s) ==
    /\ TreeAlive(trees[s])
    /\ trees[s].par # "denied"
    /\ trees' = Reap([trees EXCEPT ![s] = [@ EXCEPT !.par = "exited", !.kid = "none"]],
                     browser_process)
    /\ CoreUnchanged

\* the display process stops reacting to the terminate signal
DisplayHangs(s) ==
    /\ trees[s].par = "run"
    /\ trees' = [trees EXCEPT ![s] = [@ EXCEPT !.par = "hung"]]
    /\ CoreUnchanged

\* the display process starts a helper process
HelperSpawns(s) ==
    /\ trees[s].par \in {"run", "hung"}
    /\ trees[s].kid = "none"
    /\ trees' = [trees EXCEPT ![s] = [@ EXCEPT !.kid = "run"]]
    /\ CoreUnchanged

\* the display process ends up refusing the core's signals
AccessRevoked(s) ==
    /\ trees[s].par \in {"run", "hung"}
    /\ trees' = [trees EXCEPT ![s] = [@ EXCEPT !.par = "denied"]]
    /\ CoreUnchanged

---------------------------------------------------------------------------
(* The supervisor alone: kill_browser and launch_browser called in any order. *)

UrlLists == {<<>>, <<"A">>, <<"A", "B">>}

InitSup ==
    /\ file = Absent
    /\ now = 0
    /\ config = NoneCfg
    /\ is_on = FALSE
    /\ pc = "sup"
    /\ last_mode = "None"
    /\ last_config = NoneCfg
    /\ current_url_list = <<>>
    /\ current_tab_index = 0
    /\ browser_process = 0
    /\ trees = [s \in Slots |-> FreeTree]
    /\ sleep_for = 0
    /\ ev = <<>>
    /\ api = ApiIdle

SupUnchanged ==
    UNCHANGED <<api, file, now, config, is_on, pc, last_mode, last_config,
                current_url_list, current_tab_index, sleep_for>>

\* a call of kill_browser()
SupKill ==
    /\ pc = "sup"
    /\ \E race \in BOOLEAN :
          LET k == kill_browser(browser_process, trees, race)
          IN  /\ browser_process' = k.bp
              /\ trees' = k.trees
              /\ ev' = k.ev
    /\ SupUnchanged

\* a call of launch_browser(urls_to_open)
SupLaunch ==
    /\ pc = "sup"
    /\ \E urls \in UrlLists, spawn_ok \in BOOLEAN :
          IF urls = <<>>
          THEN /\ ev' = <<Event("launch_browser", 0), Event("No URLs", 0)>>
               /\ UNCHANGED <<browser_process, trees>>
          ELSE LET p == Popen(browser_process, trees, urls, spawn_ok)
               IN  /\ browser_process' = p.bp
                   /\ trees' = p.trees
                   /\ ev' = <<Event("launch_browser", Len(urls))>> \o
                            (IF p.ok
                             THEN <<Event("Popen", p.bp), Event("sleep", SettleDelay)>>
                                      \o focus_tab(1)
                             ELSE <<Event("Popen failed", 0)>>)
    /\ SupUnchanged

SupEnv ==
    /\ pc = "sup"
    /\ \E s \in Slots :
          DisplayExits(s) \/ DisplayHangs(s) \/ HelperSpawns(s) \/ AccessRevoked(s)

NextSup == SupKill \/ SupLaunch \/ SupEnv

SpecSup == InitSup /\ [][NextSup]_vars

---------------------------------------------------------------------------
(* The time window evaluator alone. *)

InitTime ==
    /\ \E start \in TimeStrings, end \in TimeStrings :
          file = Json(Cfg(<<Entry("A", 5)>>, "O", start, end))
    /\ now \in TimeGrid
    /\ config = NoneCfg
    /\ is_on = FALSE
    /\ pc = "time_call"
    /\ last_mode = "None"
    /\ last_config = NoneCfg
    /\ current_url_list = <<>>
    /\ current_tab_index = 0
    /\ browser_process = 0
    /\ trees = [s \in Slots |-> FreeTree]
    /\ sleep_for = 0
    /\ ev = <<>>
    /\ api = ApiIdle

\* a call of is_on_hours(config["on_hours_start"], config["on_hours_end"])
TimeCall ==
    /\ pc = "time_call"
    /\ is_on' = is_on_hours(file.dict.on_hours_start, file.dict.on_hours_end, now)
    /\ pc' = "time_returned"
    /\ UNCHANGED <<api, file, now, config, last_mode, last_config, current_url_list,
                   current_tab_index, browser_process, trees, sleep_for, ev>>

NextTime == TimeCall

SpecTime == InitTime /\ [][NextTime]_vars

---------------------------------------------------------------------------
(* The rotation loop: __main__ and main_loop, cut at the calls of time.sleep. *)

\* the times of day the loop's clock takes: inside the day window, at its end,
\* inside the overnight window
MainClock == {12 * 3600, 18 * 3600, 23 * 3600}

InvalidBackoff == 30

DeadBackoff == 5

OffPoll == 60

FaultBackoff == 15

StartupPause == 1

DefaultDuration == 15

OffDuration == 3600

\* the sleeps inside the try block of main_loop
TrySleeps == {"invalid_sleep", "settle_sleep", "dead_sleep", "dwell_sleep", "off_sleep"}

\* the sleeps outside it: in the handler of Exception, and before main_loop
BareSleeps == {"fault_sleep", "startup_sleep"}

MainPcs == {"start", "top", "exited"} \cup TrySleeps \cup BareSleeps

Init ==
    /\ file \in {Absent, Json(CfgDay)}
    /\ now \in MainClock
    /\ config = NoneCfg
    /\ is_on = FALSE
    /\ pc = "start"
    /\ last_mode = "None"
    /\ last_config = NoneCfg
    /\ current_url_list = <<>>
    /\ current_tab_index = 0
    /\ browser_process = 0
    \* a display tree an earlier run of the core may have left behind
    /\ trees \in {[s \in Slots |-> FreeTree],
                  [s \in Slots |-> IF s = 1 THEN [par |-> "run", kid |-> "none", urls |-> <<"A">>]
                                   ELSE FreeTree]}
    /\ sleep_for = 0
    /\ ev = <<>>
    /\ api = ApiIdle

\* __main__: kill_browser(); time.sleep(1)
Start ==
    /\ pc = "start"
    /\ \E race \in BOOLEAN :
          LET k == kill_browser(browser_process, trees, race)
          IN  /\ browser_process' = k.bp
              /\ trees' = k.trees
              /\ ev' = k.ev
    /\ pc' = "startup_sleep"
    /\ sleep_for' = StartupPause
    /\ UNCHANGED <<api, file, now, config, is_on, last_mode, last_config, current_url_list,
                   current_tab_index>>

\* last_mode after the handler of Exception, were the reset forgotten
ModeAfterFault_Kept(mode) == mode

\* last_mode = None  # Force full restart
ModeAfterFault(mode) == "None"

\* except Exception: kill_browser(); last_mode = None; time.sleep(15), entered with
\* browser_process bp and process table tr
Fault(what, bp, tr, race) ==
    LET k == kill_browser(bp, tr, race)
    IN  /\ browser_process' = k.bp
        /\ trees' = k.trees
        /\ last_mode' = ModeAfterFault(last_mode)
        /\ ev' = <<Event(what, 0)>> \o k.ev
        /\ pc' = "fault_sleep"
        /\ sleep_for' = FaultBackoff

\* current_mode = "ON" if is_on else "OFF"
Mode(on) == IF on THEN "ON" ELSE "OFF"

\* [entry["url"] for entry in current_url_list]
UrlsOf(list) == [i \in 1..Len(list) |-> list[i].url]

\* the index after a relaunch, were the reset left out
IndexAfterRelaunch_Kept(i) == i

\* current_tab_index = 0
IndexAfterRelaunch(i) == 0

\* step 3 of the tick: kill_browser(), the new URL list, the reset of the tab index
\* and launch_browser() up to its sleep
Relaunch(cfg, on, race, spawn_ok) ==
    LET k == kill_browser(browser_process, trees, race)
        list == IF on THEN Get(cfg, "on_urls", <<>>)
                ELSE <<[url |-> cfg.off_hours_url, duration |-> OffDuration]>>
    IN  /\ current_url_list' = list
        /\ IF \E i \in 1..Len(list) : "url" \notin DOMAIN list[i]
           THEN \* KeyError in the list comprehension, before the index is reset
                /\ Fault("KeyError", k.bp, k.trees, race)
                /\ UNCHANGED <<current_tab_index, last_config>>
           ELSE LET p == Popen(k.bp, k.trees, UrlsOf(list), spawn_ok)
                IN  /\ current_tab_index' = IndexAfterRelaunch(current_tab_index)
                    /\ browser_process' = p.bp
                    /\ trees' = p.trees
                    /\ IF p.ok
                       THEN \* inside launch_browser: time.sleep(10)
                            /\ ev' = k.ev \o <<Event("launch_browser", Len(list)),
                                               Event("Popen", p.bp)>>
                            /\ pc' = "settle_sleep"
                            /\ sleep_for' = SettleDelay
                            /\ UNCHANGED <<last_mode, last_config>>
                       ELSE \* Popen raised: launch_browser logs and returns
                            /\ ev' = k.ev \o <<Event("launch_browser", Len(list)),
                                               Event("Popen failed", 0)>>
                            /\ last_mode' = Mode(on)
                            /\ last_config' = cfg
                            /\ pc' = "top"
                            /\ sleep_for' = 0

\* the index of the tab after tab i of n, were the wrap forgotten
NextTabIndex_NoWrap(i, n) == i + 1

\* (current_tab_index + 1) % len(current_url_list)
NextTabIndex(i, n) == (i + 1) % n

\* step 4 of the tick with the window ON: the liveness check and the dwell sleep
Rotate(race) ==
    IF ~Poll_is_None(browser_process, trees)
    THEN /\ last_mode' = "None"
         /\ ev' = <<Event("Browser process not running", 0)>>
         /\ pc' = "dead_sleep"
         /\ sleep_for' = DeadBackoff
         /\ UNCHANGED <<browser_process, trees>>
    ELSE IF current_tab_index >= Len(current_url_list)
    THEN Fault("IndexError", browser_process, trees, race)
    ELSE IF "url" \notin DOMAIN current_url_list[current_tab_index + 1]
    THEN Fault("KeyError", browser_process, trees, race)
    ELSE /\ ev' = <<Event("Displaying Tab", current_tab_index + 1)>>
         /\ pc' = "dwell_sleep"
         /\ sleep_for' = Get(current_url_list[current_tab_index + 1], "duration",
                             DefaultDuration)
         /\ UNCHANGED <<browser_process, trees, last_mode>>

\* the change test, were configs compared by identity: each read is a new dict
Changed_ByIdentity(mode, lm, cfg, lc) == TRUE

\* current_mode != last_mode or config != last_config
Changed(mode, lm, cfg, lc) == mode # lm \/ cfg # lc

\* one pass of the while loop, from read_config() to the first time.sleep or continue
Tick ==
    /\ pc = "top"
    /\ config' = read_config(file)
    /\ \E race \in BOOLEAN, spawn_ok \in BOOLEAN :
        LET cfg == read_config(file) IN
        IF ConfigInvalid(cfg)
        THEN /\ ev' = <<Event("Config is invalid", 0)>>
             /\ pc' = "invalid_sleep"
             /\ sleep_for' = InvalidBackoff
             /\ UNCHANGED <<is_on, last_mode, last_config, current_url_list,
                            current_tab_index, browser_process, trees>>
        ELSE IF "on_hours_start" \notin DOMAIN cfg \/ "on_hours_end" \notin DOMAIN cfg
        THEN /\ Fault("KeyError", browser_process, trees, race)
             /\ UNCHANGED <<is_on, last_config, current_url_list, current_tab_index>>
        ELSE LET on == is_on_hours(cfg.on_hours_start, cfg.on_hours_end, now) IN
             /\ is_on' = on
             /\ IF Changed(Mode(on), last_mode, cfg, last_config)
                THEN Relaunch(cfg, on, race, spawn_ok)
                ELSE IF on /\ current_url_list # <<>>
                THEN /\ Rotate(race)
                     /\ UNCHANGED <<last_config, current_url_list, current_tab_index>>
                ELSE /\ ev' = <<Event("In Off-Hours mode", 0)>>
                     /\ pc' = "off_sleep"
                     /\ sleep_for' = OffPoll
                     /\ UNCHANGED <<last_mode, last_config, current_url_list,
                                    current_tab_index, browser_process, trees>>
    /\ UNCHANGED <<api, file, now>>

\* launch_browser after its sleep: focus_tab(1); then last_mode and last_config
SettleDone ==
    /\ pc = "settle_sleep"
    /\ ev' = focus_tab(1)
    /\ last_mode' = Mode(is_on)
    /\ last_config' = config
    /\ pc' = "top"
    /\ sleep_for' = 0
    /\ UNCHANGED <<api, file, now, config, is_on, current_url_list, current_tab_index,
                   browser_process, trees>>

\* after time.sleep(duration): the next tab
DwellDone ==
    /\ pc = "dwell_sleep"
    /\ current_tab_index' = NextTabIndex(current_tab_index, Len(current_url_list))
    /\ ev' = <<Event("slept", sleep_for)>> \o focus_tab(current_tab_index' + 1)
    /\ pc' = "top"
    /\ sleep_for' = 0
    /\ UNCHANGED <<api, file, now, config, is_on, last_mode, last_config, current_url_list,
                   browser_process, trees>>

\* the end of any other sleep: the next pass of the loop
SleepDone ==
    /\ pc \in {"invalid_sleep", "dead_sleep", "off_sleep", "fault_sleep", "startup_sleep"}
    /\ pc' = "top"
    /\ sleep_for' = 0
    /\ ev' = <<>>
    /\ UNCHANGED <<api, file, now, config, is_on, last_mode, last_config, current_url_list,
                   current_tab_index, browser_process, trees>>

\* SIGINT during a sleep inside the try block: except KeyboardInterrupt:
\* kill_browser(); break
Interrupt ==
    /\ pc \in TrySleeps
    /\ \E race \in BOOLEAN :
          LET k == kill_browser(browser_process, trees, race)
          IN  /\ browser_process' = k.bp
              /\ trees' = k.trees
              /\ ev' = <<Event("KeyboardInterrupt", 0)>> \o k.ev
    /\ pc' = "exited"
    /\ sleep_for' = 0
    /\ UNCHANGED <<api, file, now, config, is_on, last_mode, last_config, current_url_list,
                   current_tab_index>>

\* SIGINT during a sleep no try block covers: the KeyboardInterrupt ends the process
InterruptUncaught ==
    /\ pc \in BareSleeps
    /\ ev' = <<Event("KeyboardInterrupt", 0), Event("Traceback", 0)>>
    /\ pc' = "exited"
    /\ sleep_for' = 0
    /\ UNCHANGED <<api, file, now, config, is_on, last_mode, last_config, current_url_list,
                   current_tab_index, browser_process, trees>>

\* SIGTERM (the service manager's stop): the script installs no handler, so the
\* interpreter dies at once
ServiceStop ==
    /\ pc \in MainPcs \ {"exited"}
    /\ ev' = <<Event("SIGTERM", 0)>>
    /\ pc' = "exited"
    /\ sleep_for' = 0
    /\ UNCHANGED <<api, file, now, config, is_on, last_mode, last_config, current_url_list,
                   current_tab_index, browser_process, trees>>

EnvUnchanged ==
    UNCHANGED <<api, config, is_on, pc, last_mode, last_config, current_url_list,
                current_tab_index, browser_process, trees, sleep_for, ev>>

Running == pc \in MainPcs \ {"exited"}

\* POST /api/config: save_config wrote c
WriteConfig ==
    /\ Running
    /\ \E c \in Configs : file' = Json(c)
    /\ file' # file
    /\ UNCHANGED now
    /\ EnvUnchanged

\* save_config has opened the file for writing and not yet dumped: a read now
\* finds no JSON
TornWrite ==
    /\ Running
    /\ file.kind # "torn"
    /\ file' = Torn
    /\ UNCHANGED now
    /\ EnvUnchanged

\* the config file is removed
DeleteConfig ==
    /\ Running
    /\ file.kind # "absent"
    /\ file' = Absent
    /\ UNCHANGED now
    /\ EnvUnchanged

\* the wall clock moves on to the next time of MainClock, round midnight
ClockAdvance ==
    /\ Running
    /\ now' = IF \E t \in MainClock : t > now
              THEN CHOOSE t \in MainClock : t > now /\ \A u \in MainClock : u > now => t <= u
              ELSE CHOOSE t \in MainClock : \A u \in MainClock : t <= u
    /\ UNCHANGED file
    /\ EnvUnchanged

DisplayEnv ==
    /\ Running
    /\ \E s \in Slots : DisplayExits(s) \/ DisplayHangs(s) \/ HelperSpawns(s)

Next ==
    \/ Start
    \/ Tick
    \/ SettleDone
    \/ DwellDone
    \/ SleepDone
    \/ Interrupt
    \/ InterruptUncaught
    \/ ServiceStop
    \/ WriteConfig
    \/ TornWrite
    \/ DeleteConfig
    \/ ClockAdvance
    \/ DisplayEnv

Spec == Init /\ [][Next]_vars

(* The loop left alone with a valid config that nobody rewrites: the clock      *)
(* stands, no signal arrives, only the display processes act on their own.  The *)
(* loop is one thread and every sleep ends, so each of its steps is taken in    *)
(* time.                                                                        *)

InitSteady ==
    /\ file \in {Absent} \cup {Json(c) : c \in SteadyConfigs}
    /\ now \in MainClock
    /\ config = NoneCfg
    /\ is_on = FALSE
    /\ pc = "start"
    /\ last_mode = "None"
    /\ last_config = NoneCfg
    /\ current_url_list = <<>>
    /\ current_tab_index = 0
    /\ browser_process = 0
    /\ trees = [s \in Slots |-> FreeTree]
    /\ sleep_for = 0
    /\ ev = <<>>
    /\ api = ApiIdle

NextSteady ==
    \/ Start
    \/ Tick
    \/ SettleDone
    \/ DwellDone
    \/ SleepDone
    \/ DisplayEnv

FairSpec ==
    /\ InitSteady
    /\ [][NextSteady]_vars
    /\ WF_vars(Start)
    /\ WF_vars(Tick)
    /\ WF_vars(SettleDone)
    /\ WF_vars(DwellDone)
    /\ WF_vars(SleepDone)

---------------------------------------------------------------------------
(* Properties. *)

\* the step did op
Did(e, op) == \E i \in 1..Len(e) : e[i].op = op

\* the tracked display process is alive
DisplayAlive == Poll_is_None(browser_process, trees)

\* the window is ON for the dict c at the time t (c has both window keys)
WindowOn(c, t) ==
    /\ "on_hours_start" \in DOMAIN c
    /\ "on_hours_end" \in DOMAIN c
    /\ is_on_hours(c.on_hours_start, c.on_hours_end, t)

\* C1: after any sequence of launch_browser / kill_browser calls at most one
\* display process tree is alive (two launches in a row leave exactly one).
C1_AtMostOneLiveTree == Cardinality(LiveTrees(trees)) <= 1

\* C2: for every time of day and every parseable start and end, is_on_hours is true
\* iff (start <= end and start <= now < end) or (start > end and (now >= start or
\* now < end)); 08:00-18:00 is off at 07:59 and 18:00 and on at 08:00 and 17:59;
\* 22:00-06:00 is on at 23:00 and 05:59 and off at 06:00 and 12:00; start = end is
\* never on.
C2_TimeWindow ==
    pc = "time_returned" =>
        LET start_str == file.dict.on_hours_start
            end_str == file.dict.on_hours_end
            At(h, m) == now \in {h * 3600 + m * 60, h * 3600 + m * 60 + 59}
        IN  /\ \A h1 \in 0..23, m1 \in {0, 59}, h2 \in 0..23, m2 \in {0, 59} :
                  (start_str = HHMM(h1, m1) /\ end_str = HHMM(h2, m2)) =>
                      LET start == (h1 * 60 + m1) * 60
                          end == (h2 * 60 + m2) * 60
                      IN  is_on = IF start <= end THEN start <= now /\ now < end
                                  ELSE now >= start \/ now < end
            /\ (start_str = <<"0", "8", ":", "0", "0">> /\ end_str = <<"1", "8", ":", "0", "0">>) =>
                  /\ (At(7, 59) \/ At(18, 0)) => ~is_on
                  /\ (At(8, 0) \/ At(17, 59)) => is_on
            /\ (start_str = <<"2", "2", ":", "0", "0">> /\ end_str = <<"0", "6", ":", "0", "0">>) =>
                  /\ (At(23, 0) \/ At(5, 59)) => is_on
                  /\ (At(6, 0) \/ At(12, 0)) => ~is_on
            /\ (start_str = <<"8", ":", "0", "0">> /\ end_str = <<"1", "8", ":", "0", "0">>) =>
                  (is_on <=> (8 * 3600 <= now /\ now < 18 * 3600))
            /\ (start_str = end_str) => ~is_on

C2_Witness ==
    /\ pc = "time_returned"
    /\ file.dict.on_hours_start = HHMM(22, 0)
    /\ file.dict.on_hours_end = HHMM(6, 0)
    /\ now = 5 * 3600 + 59 * 60 + 59
    /\ is_on

\* C3: whenever the core process has exited after its termination signal, the
\* display process tree it owned has been terminated: no display process it
\* tracked is alive after the exit.
C3_NoOrphanAfterExit == pc = "exited" => ~DisplayAlive

\* the file holds a dict the tick accepts and applies without a fault
FileApplies ==
    LET c == read_config(file)
    IN  /\ ~ConfigInvalid(c)
        /\ "on_hours_start" \in DOMAIN c
        /\ "on_hours_end" \in DOMAIN c
        /\ \A i \in 1..Len(c.on_urls) : "url" \in DOMAIN c.on_urls[i]

\* C4: in ON mode and in OFF mode, a tracked display process found not alive is
\* relaunched on a later tick, as long as the config is valid and spawning succeeds
\* (and the core is not stopped).
C4_DeadDisplayRelaunched ==
    (last_mode \in {"ON", "OFF"} /\ pc \in {"top", "off_sleep", "dwell_sleep"}
        /\ browser_process # 0 /\ ~DisplayAlive /\ FileApplies)
      ~> (DisplayAlive \/ ~FileApplies \/ Did(ev, "Popen failed") \/ pc = "exited")

\* C5: a tick that reads an on_urls differing from the one last applied, with mode ON
\* and the window still ON, kills the display, relaunches with the new list and
\* resets current_tab_index to 0.  (Stated for a new on_urls that is non-empty
\* and well-formed.)
C5_ConfigChangeRelaunches ==
    [][(/\ Tick
        /\ last_mode = "ON"
        /\ DisplayAlive
        /\ LET c == read_config(file)
           IN  /\ "on_urls" \in DOMAIN c
               /\ c.on_urls # <<>>
               /\ \A i \in 1..Len(c.on_urls) : "url" \in DOMAIN c.on_urls[i]
               /\ WindowOn(c, now)
               /\ "on_urls" \in DOMAIN last_config
               /\ c.on_urls # last_config.on_urls)
       => (/\ Did(ev', "kill_browser")
           /\ Did(ev', "launch_browser")
           /\ current_url_list' = read_config(file).on_urls
           /\ current_tab_index' = 0)]_vars

\* C6: in steady-state ON with a live display the loop sleeps for exactly the
\* current entry's duration (15 s for an entry without one) with the index still
\* on that entry; only when that sleep is over does the index advance, by one and
\* wrapping from n-1 to 0, and the focus signal for the new index is sent; nothing
\* but a relaunch (which resets it to 0) moves the index otherwise.
C6_Rotation ==
    /\ [](pc = "dwell_sleep" =>
            /\ current_tab_index \in 0..(Len(current_url_list) - 1)
            /\ LET cur == current_url_list[current_tab_index + 1]
               IN  sleep_for = IF "duration" \in DOMAIN cur THEN cur.duration ELSE 15)
    /\ [][DwellDone =>
            /\ current_tab_index' =
                  IF current_tab_index = Len(current_url_list) - 1 THEN 0
                  ELSE current_tab_index + 1
            /\ ev' = <<Event("slept", sleep_for),
                       Event("xdotool key ctrl+", current_tab_index' + 1)>>]_vars
    /\ [][current_tab_index' # current_tab_index =>
            DwellDone \/ current_tab_index' = 0]_vars
    /\ [][(pc = "top" /\ pc' = "dwell_sleep") =>
            (current_tab_index' = current_tab_index /\ ~Did(ev', "xdotool key ctrl+"))]_vars

\* the third tab of a list of three has been shown for its 3 s and the index wrapped
C6_Witness ==
    /\ pc = "top"
    /\ Len(current_url_list) = 3
    /\ current_tab_index = 0
    /\ ev = <<Event("slept", 3), Event("xdotool key ctrl+", 1)>>

\* C7: on a tick where on_urls is empty and the window is ON, no launch occurs, the
\* loop waits its fixed backoff, mode is not marked ON and no display process is
\* left running.
C7_EmptyOnUrlsNothingRuns ==
    [][(/\ Tick
        /\ LET c == read_config(file)
           IN  /\ "on_urls" \in DOMAIN c
               /\ c.on_urls = <<>>
               /\ WindowOn(c, now))
       => (/\ ~Did(ev', "launch_browser")
           /\ pc' = "invalid_sleep"
           /\ sleep_for' = InvalidBackoff
           /\ (last_mode' = "ON" => last_mode = "ON")
           /\ LiveTrees(trees') = {})]_vars

\* an exception of the tick
IsFault(e) == Did(e, "KeyError") \/ Did(e, "IndexError")

\* C8: an exception raised inside a tick is caught at the loop boundary: the
\* display process is terminated and browser_process is None, last_mode is reset
\* to None, the loop goes on (to its 15 s backoff, never to its exit), and the
\* next tick that reads a valid config takes the relaunch path.
C8_FaultHandled ==
    /\ [][(pc = "top" /\ IsFault(ev')) =>
            /\ pc' = "fault_sleep"
            /\ sleep_for' = FaultBackoff
            /\ Did(ev', "kill_browser")
            /\ browser_process' = 0
            /\ LiveTrees(trees') = {}
            /\ last_mode' = "None"]_vars
    /\ [](pc = "fault_sleep" => (last_mode = "None" /\ browser_process = 0))
    /\ [][pc = "fault_sleep" =>
            (pc' \in {"fault_sleep", "top"} \/ Did(ev', "KeyboardInterrupt")
                \/ Did(ev', "SIGTERM"))]_vars
    /\ [][(Tick /\ last_mode = "None" /\ FileApplies) =>
            (Did(ev', "kill_browser") /\ Did(ev', "launch_browser"))]_vars

\* the handler has terminated a live display after a KeyError
C8_Witness ==
    /\ pc = "fault_sleep"
    /\ Did(ev, "KeyError")
    /\ Did(ev, "parent.terminate")
    /\ browser_process = 0

\* the config record is absent, unparseable or lacks a required field
ConfigUnavailable ==
    \/ file.kind \in {"absent", "torn"}
    \/ {"on_urls", "off_hours_url", "on_hours_start", "on_hours_end"}
          \ DOMAIN file.dict # {}

\* C9: a tick that finds the config record absent, unparseable or lacking required
\* fields leaves mode unchanged, neither kills nor launches the display and waits
\* the fixed backoff.
C9_ConfigUnavailableKeepsState ==
    [][(Tick /\ ConfigUnavailable /\ ~Did(ev', "Popen failed")) =>
          /\ UNCHANGED <<last_mode, browser_process, trees>>
          /\ ~Did(ev', "kill_browser")
          /\ ~Did(ev', "launch_browser")
          /\ pc' = "invalid_sleep"]_vars

\* C10: kill_browser can be called in every state of the tracked process and
\* returns with browser_process None; with no handle and no display process
\* running it changes nothing.
C10_KillNeverFailsClearsHandle ==
    /\ [](pc = "sup" => ENABLED SupKill)
    /\ [][SupKill =>
            /\ browser_process' = 0
            /\ ~Did(ev', "Traceback")
            /\ (browser_process = 0 /\ LiveTrees(trees) = {}) => trees' = trees]_vars

\* kill_browser has returned from a tracked process that ignored the terminate signal
C10_Witness ==
    /\ pc = "sup"
    /\ Did(ev, "TimeoutExpired")
    /\ browser_process = 0

\* a config whose on_urls is a non-empty list of well-formed entries and whose
\* off_hours_url is absent or the empty string
EmptyOffUrl(c) ==
    /\ {"on_urls", "on_hours_start", "on_hours_end"} \subseteq DOMAIN c
    /\ c.on_urls # <<>>
    /\ \A i \in 1..Len(c.on_urls) : "url" \in DOMAIN c.on_urls[i]
    /\ Get(c, "off_hours_url", "") = ""

\* C11: with a non-empty on_urls and an empty off_hours_url, a tick whose window
\* is OFF terminates any running display and leaves none running, and a tick
\* whose window is ON launches or rotates the on_urls display as usual.
C11_EmptyOffUrlShowsNothing ==
    [][(Tick /\ EmptyOffUrl(read_config(file))) =>
          IF WindowOn(read_config(file), now)
          THEN Did(ev', "launch_browser") \/ Did(ev', "Displaying Tab")
                  \/ Did(ev', "Browser process not running")
          ELSE LiveTrees(trees') = {}]_vars

\* the loop is back in its steady state after a launch whose Popen raised: the
\* relaunch has recorded last_mode and last_config, and there is no handle
AfterSpawnFailure ==
    /\ pc \in {"off_sleep", "dead_sleep", "dwell_sleep"}
    /\ browser_process = 0

\* C12: a launch whose spawn fails does not end the loop and leaves the display
\* counted as not alive, and with config and window unchanged a later tick
\* attempts the launch again, in ON mode and in OFF mode.
C12_SpawnFailureRetried ==
    /\ [][Did(ev', "Popen failed") =>
            (pc' = "top" /\ browser_process' = 0 /\ ~Poll_is_None(browser_process', trees'))]_vars
    /\ (AfterSpawnFailure ~> Did(ev, "launch_browser"))

\* the loop has just slept a whole dwell of more than 3600 seconds on the only
\* entry of the list, so the visit that follows comes more than 3600 seconds
\* after any earlier maintenance of that url
LongSinceMaintenance ==
    /\ pc = "top"
    /\ Len(current_url_list) = 1
    /\ ev # <<>>
    /\ ev[1].op = "slept"
    /\ ev[1].arg > 3600

\* C13: in steady ON, a visit of a tab less than 3600 s after that url's last
\* maintenance emits no reload; a visit more than 3600 s after it emits one
\* reload followed by one popup dismissal.
C13_MaintenanceInterval ==
    /\ [][(Tick /\ Did(ev', "Displaying Tab") /\ ~LongSinceMaintenance) =>
            ~Did(ev', "reload")]_vars
    /\ [][(Tick /\ Did(ev', "Displaying Tab") /\ LongSinceMaintenance) =>
            \E i, j \in 1..Len(ev') :
                /\ i < j
                /\ ev'[i].op = "reload"
                /\ ev'[j].op = "dismiss"]_vars

\* a usable config whose on_hours_start or on_hours_end is present and is not a
\* time strptime accepts
BadWindow(c) ==
    /\ ~ConfigInvalid(c)
    /\ {"on_hours_start", "on_hours_end"} \subseteq DOMAIN c
    /\ \/ strptime(c.on_hours_start) = ValueError
       \/ strptime(c.on_hours_end) = ValueError

\* C14: with an unparseable on_hours_start or on_hours_end the tick raises
\* nothing and does not end the loop, computes "not on", and goes on as an OFF
\* tick: it relaunches with off_hours_url alone when the mode was not OFF, and
\* idles when OFF mode with this config was already applied.
C14_BadWindowIsOff ==
    [][(Tick /\ BadWindow(read_config(file))) =>
          LET c == read_config(file) IN
          /\ is_on' = FALSE
          /\ ~IsFault(ev')
          /\ ~Did(ev', "Traceback")
          /\ pc' \in {"top", "settle_sleep", "off_sleep"}
          /\ last_mode # "OFF" =>
                /\ Did(ev', "kill_browser")
                /\ Did(ev', "launch_browser")
                /\ current_url_list' = <<[url |-> c.off_hours_url, duration |-> OffDuration]>>
                /\ Did(ev', "Popen") =>
                      /\ pc' = "settle_sleep"
                      /\ trees'[browser_process'].urls = <<c.off_hours_url>>
                /\ Did(ev', "Popen failed") => last_mode' = "OFF"
          /\ (last_mode = "OFF" /\ c = last_config) =>
                /\ Did(ev', "In Off-Hours mode")
                /\ pc' = "off_sleep"
                /\ UNCHANGED <<last_mode, browser_process, trees>>]_vars

\* inside the written window hours of a config whose start cannot be parsed, the
\* mode was ON and the tick has launched the off_hours_url display
C14_Witness ==
    /\ pc = "settle_sleep"
    /\ BadWindow(config)
    /\ last_mode = "ON"
    /\ is_on = FALSE
    /\ Poll_is_None(browser_process, trees)
    /\ trees[browser_process].urls = <<config.off_hours_url>>

NonEmptyUrl(u) == u # ""

\* C16: the urls handed to the launch on entering ON mode are the urls of
\* on_urls in order without the empty ones, and the list the rotation indexes
\* is the list of the launched entries, so that position k is the k-th tab.
C16_LaunchListSkipsEmpty ==
    [][(Tick /\ is_on' /\ Did(ev', "Popen")) =>
          /\ trees'[browser_process'].urls =
                SelectSeq(UrlsOf(read_config(file).on_urls), NonEmptyUrl)
          /\ UrlsOf(current_url_list') = trees'[browser_process'].urls]_vars

\* C17: the jump-to-tab signal is sent for the indices 1..8 only: whatever the
\* length of the list, the loop never sends ctrl+N with N above 8.
C17_OnlyAddressableTabs ==
    \A i \in 1..Len(ev) : ev[i].op = "xdotool key ctrl+" => ev[i].arg \in 1..8

\* C18: whenever the loop reads current_url_list[current_tab_index] the index is
\* within the list: no tick ends in an IndexError and every dwell is on an
\* existing entry, whatever config changes, window flips, display deaths and
\* faults between the replacement of the list and the reset of the index came
\* before.
C18_TabIndexInRange ==
    /\ ~Did(ev, "IndexError")
    /\ pc = "dwell_sleep" =>
          /\ 0 <= current_tab_index
          /\ current_tab_index < Len(current_url_list)

\* a fault part-way through a relaunch has left the new, shorter list with the
\* index of the old one
C18_Witness ==
    /\ pc = "fault_sleep"
    /\ Did(ev, "KeyError")
    /\ current_url_list # <<>>
    /\ current_tab_index >= Len(current_url_list)

\* C19: a tick that reads the config last applied, computes the mode last
\* applied and finds the tracked display alive neither kills nor launches: the
\* display, the handle, the mode and the list are as they were.
C19_NoSpuriousRelaunch ==
    [][(/\ Tick
        /\ read_config(file) = last_config
        /\ Mode(WindowOn(last_config, now)) = last_mode
        /\ DisplayAlive) =>
          /\ ~Did(ev', "kill_browser")
          /\ ~Did(ev', "launch_browser")
          /\ pc' \in {"dwell_sleep", "off_sleep"}
          /\ UNCHANGED <<browser_process, trees, last_mode, last_config,
                         current_url_list, current_tab_index>>]_vars

\* the display of the applied config is on a later tab of the same launch
C19_Witness ==
    /\ pc = "dwell_sleep"
    /\ last_mode = "ON"
    /\ config = last_config
    /\ DisplayAlive
    /\ current_tab_index > 0
    /\ ~Did(ev, "kill_browser")

---------------------------------------------------------------------------
(* The config endpoints of server.py.  Flask serves each request in a thread  *)
(* of its own, so a GET and a POST of /api/config can be in progress at once; *)
(* a handler is cut where it opens, reads or writes CONFIG_FILE.              *)

\* default_config of load_config
ServerDefault ==
    Cfg(<<Entry("https://google.com", 60)>>, "https://duckduckgo.com", HHMM(8, 0), HHMM(18, 0))

\* request.json of the POSTs
PostBodies == {CfgDay, CfgNight}

\* CONFIG_FILE after json.dump(d) and close by a handler that opened it with 'w':
\* d; but written from offset 0 over what another handler has dumped since the
\* open, d alone when that text was no longer, else d followed by its tail
Dumped(d, stale) == IF stale THEN {Json(d), Torn} ELSE {Json(d)}

ApiUnchanged ==
    UNCHANGED <<now, config, is_on, pc, last_mode, last_config, current_url_list,
                current_tab_index, browser_process, trees, sleep_for, ev>>

InitApi ==
    /\ file \in {Absent, Json(ServerDefault), Json(CfgDay)}
    /\ now = 0
    /\ config = NoneCfg
    /\ is_on = FALSE
    /\ pc = "api"
    /\ last_mode = "None"
    /\ last_config = NoneCfg
    /\ current_url_list = <<>>
    /\ current_tab_index = 0
    /\ browser_process = 0
    /\ trees = [s \in Slots |-> FreeTree]
    /\ sleep_for = 0
    /\ ev = <<>>
    /\ api = ApiIdle

\* get_config -> load_config: os.path.exists(CONFIG_FILE)
GetExists ==
    /\ api.get = "idle"
    /\ api' = [api EXCEPT !.get = IF file.kind = "absent" THEN "missing" ELSE "exists"]
    /\ UNCHANGED file
    /\ ApiUnchanged

\* load_config: open 'r' and json.load; the answer, or JSONDecodeError caught
GetLoad ==
    /\ api.get = "exists"
    /\ api' = IF file.kind = "json"
              THEN [api EXCEPT !.get = "idle", !.body = file.dict]
              ELSE [api EXCEPT !.get = "corrupt"]
    /\ UNCHANGED file
    /\ ApiUnchanged

\* load_config -> save_config(default_config): open 'w' truncates the file
GetSaveOpen ==
    /\ api.get \in {"missing", "corrupt"}
    /\ file' = Torn
    /\ api' = [api EXCEPT !.get = "opened", !.get_stale = FALSE]
    /\ ApiUnchanged

\* save_config(default_config): json.dump and close; load_config returns the default
GetSaveDump ==
    /\ api.get = "opened"
    /\ file' \in Dumped(ServerDefault, api.get_stale)
    /\ api' = [api EXCEPT !.get = "idle", !.body = ServerDefault,
                          !.post_stale = (api.post = "opened") \/ @]
    /\ ApiUnchanged

\* set_config -> save_config(request.json): open 'w' truncates the file
PostSaveOpen ==
    /\ api.post = "idle"
    /\ \E d \in PostBodies :
          api' = [api EXCEPT !.post = "opened", !.data = d, !.post_stale = FALSE]
    /\ file' = Torn
    /\ ApiUnchanged

\* save_config(request.json): json.dump and close; set_config answers "success"
PostSaveDump ==
    /\ api.post = "opened"
    /\ file' \in Dumped(api.data, api.post_stale)
    /\ api' = [api EXCEPT !.post = "idle", !.accepted = api.data, !.data = NoneCfg,
                          !.get_stale = (api.get = "opened") \/ @]
    /\ ApiUnchanged

NextApi ==
    \/ GetExists
    \/ GetLoad
    \/ GetSaveOpen
    \/ GetSaveDump
    \/ PostSaveOpen
    \/ PostSaveDump

SpecApi == InitApi /\ [][NextApi]_vars

\* C20: a GET of /api/config opens the config file for writing only when there
\* is no file, and once no request is in progress the file holds the config of
\* the last POST answered with success: a GET never replaces it.
C20_GetIsReadOnly ==
    /\ [][(GetSaveOpen) => file.kind = "absent"]_vars
    /\ []((api.get = "idle" /\ api.post = "idle" /\ api.accepted # NoneCfg) =>
            file = Json(api.accepted))

===========================================================================
